---- MODULE Spec2Model ----
(***************************************************************************)
(* Model of the domain security assessment backend:                        *)
(*   - evaluateSecurityStatus (backend/src/security-evaluator.js), the     *)
(*     pure scoring function, as an operator;                              *)
(*   - runPythonScript / runIndividualTests / runSecurityTests and the     *)
(*     POST /api/test/:domainId handler (backend/src/server.js), as a      *)
(*     state machine over child processes, timers and promises.            *)
(*                                                                         *)
(* JavaScript objects are modelled as TLA+ records; reading a field that   *)
(* the object does not have yields undefined, which is falsy.              *)
(***************************************************************************)
EXTENDS Integers, Sequences, FiniteSets, TLC

\* ------------------------------------------------------------------ bounds

\* Longest spf.warnings list a probe payload carries in the model.
MaxWarnings == 2

\* Most chunks a child process writes to its standard output.
MaxChunks == 2

\* Most chunks a child process writes to its standard error.
MaxErrChunks == 1

\* ------------------------------------------------------- JavaScript values

\* The four check names, in the order the code evaluates and runs them.
Checks == <<"dmarc", "spf", "dkim", "mail_server">>

CheckNames == {Checks[i] : i \in 1..Len(Checks)}

\* STATUS of security-evaluator.js
STATUS == [PASS |-> "pass", FAIL |-> "fail", WARNING |-> "warning", INFO |-> "info"]

\* obj.field used as a condition, for a boolean field: a missing field is
\* undefined and therefore falsy.
TruthyBool(obj, field) == field \in DOMAIN obj /\ obj[field] = TRUE

\* obj.field used as a condition, for a string field: undefined and the
\* empty string are falsy.
TruthyStr(obj, field) == field \in DOMAIN obj /\ obj[field] # ""

\* obj.field === value, for a string field: undefined equals no string.
StrIs(obj, field, value) == field \in DOMAIN obj /\ obj[field] = value

\* testResults.<check> used as a condition: a key that is missing (or holds
\* undefined) is falsy, every object is truthy.
Present(testResults, check) == check \in DOMAIN testResults

\* String.prototype.includes on a string given as a sequence of characters.
Includes(str, sub) ==
  \E i \in 1..(Len(str) - Len(sub) + 1) : SubSeq(str, i, i + Len(sub) - 1) = sub

\* Mutant of Max: Math.min written for Math.max.
MinSlip(a, b) == IF a <= b THEN a ELSE b

\* Math.max
Max(a, b) == IF a >= b THEN a ELSE b

\* Math.round(num / den) for den > 0: the nearest integer, halves towards
\* plus infinity, i.e. floor(num/den + 1/2).
Round(num, den) == (2 * num + den) \div (2 * den)

\* Sum of f[c] over the four checks.
SumOver(f) == f["dmarc"] + f["spf"] + f["dkim"] + f["mail_server"]

\* ------------------------------------------- evaluateSecurityStatus, parts

\* What one "Evaluate ..." block of evaluateSecurityStatus adds: the
\* test_statuses entry it sets (status, when set is TRUE), its increments of
\* totalTests, passedTests, criticalIssues and warningIssues, and the
\* recommendations it pushes, in order.
Contribution(set, status, total, passed, critical, warning, recs) ==
  [set |-> set, status |-> status, total |-> total, passed |-> passed,
   critical |-> critical, warning |-> warning, recs |-> recs]

\* Mutant of NoContribution: a check that is not in the map counted as a
\* failed test.
AbsentCountsAsFail ==
  Contribution(TRUE, STATUS.FAIL, 1, 0, 1, 0, <<"Check was not run">>)

NoContribution == Contribution(FALSE, "", 0, 0, 0, 0, <<>>)

EvalDmarc(testResults) ==
  IF ~Present(testResults, "dmarc") THEN NoContribution
  ELSE LET dmarc == testResults["dmarc"] IN
    IF TruthyBool(dmarc, "has_dmarc") THEN
      LET noReport == ~TruthyStr(dmarc, "rua") /\ ~TruthyStr(dmarc, "ruf")
          extraW == IF noReport THEN 1 ELSE 0
          extraR == IF noReport
                    THEN <<"Configure DMARC reporting addresses (rua/ruf) to monitor email authentication">>
                    ELSE <<>>
      IN CASE StrIs(dmarc, "policy", "reject") ->
                Contribution(TRUE, STATUS.PASS, 1, 1, 0, extraW, extraR)
           [] StrIs(dmarc, "policy", "quarantine") ->
                Contribution(TRUE, STATUS.WARNING, 1, 0, 0, 1 + extraW,
                  <<"Consider upgrading DMARC policy from \"quarantine\" to \"reject\" for stronger protection">> \o extraR)
           [] StrIs(dmarc, "policy", "none") ->
                Contribution(TRUE, STATUS.FAIL, 1, 0, 1, extraW,
                  <<"DMARC policy is set to \"none\" - upgrade to \"quarantine\" or \"reject\" to prevent email spoofing">> \o extraR)
           [] OTHER ->
                Contribution(FALSE, "", 1, 0, 0, extraW, extraR)
    ELSE Contribution(TRUE, STATUS.FAIL, 1, 0, 1, 0,
           <<"CRITICAL: No DMARC record found - implement DMARC to prevent email spoofing">>)

\* spf.warnings.forEach(warning => push(`SPF Warning: ${warning}`))
SpfWarningRecs(spf) ==
  IF "warnings" \in DOMAIN spf
  THEN [i \in 1..Len(spf["warnings"]) |-> "SPF Warning: " \o spf["warnings"][i]]
  ELSE <<>>

EvalSpf(testResults) ==
  IF ~Present(testResults, "spf") THEN NoContribution
  ELSE LET spf == testResults["spf"] IN
    IF TruthyBool(spf, "has_spf") THEN
      LET aux == SpfWarningRecs(spf)
      IN CASE StrIs(spf, "all_mechanism", "-all") ->
                Contribution(TRUE, STATUS.PASS, 1, 1, 0, 0, aux)
           [] StrIs(spf, "all_mechanism", "~all") ->
                Contribution(TRUE, STATUS.WARNING, 1, 0, 0, 1,
                  <<"SPF uses soft fail (~all) - consider hard fail (-all) for stronger protection">> \o aux)
           [] StrIs(spf, "all_mechanism", "+all") ->
                Contribution(TRUE, STATUS.FAIL, 1, 0, 1, 0,
                  <<"CRITICAL: SPF allows all senders (+all) - this provides no protection">> \o aux)
           [] OTHER ->
                Contribution(TRUE, STATUS.WARNING, 1, 0, 0, 1,
                  <<"SPF record should end with -all or ~all mechanism">> \o aux)
    ELSE Contribution(TRUE, STATUS.FAIL, 1, 0, 1, 0,
           <<"CRITICAL: No SPF record found - implement SPF to specify authorized mail servers">>)

\* Mutant of EvalDkim: the statuses of "found but invalid" and "not found"
\* exchanged (invalid signature a warning, no DKIM a failure).
EvalDkimSwapped(testResults) ==
  IF ~Present(testResults, "dkim") THEN NoContribution
  ELSE LET dkim == testResults["dkim"] IN
    IF TruthyBool(dkim, "has_dkim") /\ TruthyBool(dkim, "signature_valid") THEN
      IF "key_length" \in DOMAIN dkim /\ Includes(dkim["key_length"], <<"1", "0", "2", "4">>)
      THEN Contribution(TRUE, STATUS.PASS, 1, 1, 0, 1,
             <<"Consider upgrading DKIM key length to 2048 bits or higher for better security">>)
      ELSE Contribution(TRUE, STATUS.PASS, 1, 1, 0, 0, <<>>)
    ELSE IF TruthyBool(dkim, "has_dkim") /\ ~TruthyBool(dkim, "signature_valid") THEN
      Contribution(TRUE, STATUS.WARNING, 1, 0, 0, 1,
        <<"DKIM record found but signature validation failed - check key configuration">>)
    ELSE
      Contribution(TRUE, STATUS.FAIL, 1, 0, 1, 0,
        <<"DKIM not detected with common selectors - ensure DKIM is properly configured">>)

EvalDkim(testResults) ==
  IF ~Present(testResults, "dkim") THEN NoContribution
  ELSE LET dkim == testResults["dkim"] IN
    IF TruthyBool(dkim, "has_dkim") /\ TruthyBool(dkim, "signature_valid") THEN
      IF "key_length" \in DOMAIN dkim /\ Includes(dkim["key_length"], <<"1", "0", "2", "4">>)
      THEN Contribution(TRUE, STATUS.PASS, 1, 1, 0, 1,
             <<"Consider upgrading DKIM key length to 2048 bits or higher for better security">>)
      ELSE Contribution(TRUE, STATUS.PASS, 1, 1, 0, 0, <<>>)
    ELSE IF TruthyBool(dkim, "has_dkim") /\ ~TruthyBool(dkim, "signature_valid") THEN
      Contribution(TRUE, STATUS.FAIL, 1, 0, 1, 0,
        <<"DKIM record found but signature validation failed - check key configuration">>)
    ELSE
      Contribution(TRUE, STATUS.WARNING, 1, 0, 0, 1,
        <<"DKIM not detected with common selectors - ensure DKIM is properly configured">>)

EvalMailServer(testResults) ==
  IF ~Present(testResults, "mail_server") THEN NoContribution
  ELSE LET mailServer == testResults["mail_server"] IN
    IF TruthyBool(mailServer, "smtp_accessible") THEN
      LET tls == TruthyBool(mailServer, "supports_tls")
          auth == TruthyBool(mailServer, "supports_auth")
          slow == "response_time_ms" \in DOMAIN mailServer
                    /\ mailServer["response_time_ms"] > 5000
          extraW == IF slow THEN 1 ELSE 0
          extraR == IF slow
                    THEN <<"Mail server response time is slow - consider performance optimization">>
                    ELSE <<>>
      IN IF tls /\ auth THEN
           Contribution(TRUE, STATUS.PASS, 1, 1, 0, extraW, extraR)
         ELSE IF tls \/ auth THEN
           Contribution(TRUE, STATUS.WARNING, 1, 0, 0, 1 + extraW,
             (IF ~tls THEN <<"Mail server should support TLS encryption">> ELSE <<>>)
             \o (IF ~auth THEN <<"Mail server should support SMTP authentication">> ELSE <<>>)
             \o extraR)
         ELSE
           Contribution(TRUE, STATUS.FAIL, 1, 0, 1, extraW,
             <<"Mail server lacks TLS and authentication support - security risk">> \o extraR)
    ELSE Contribution(TRUE, STATUS.FAIL, 1, 0, 1, 0,
           <<"Mail server is not accessible - check server configuration">>)

\* The four blocks, by check name.
Contributions(testResults) ==
  [dmarc |-> EvalDmarc(testResults),
   spf |-> EvalSpf(testResults),
   dkim |-> EvalDkim(testResults),
   mail_server |-> EvalMailServer(testResults)]

\* Lines 147-154: overall_status and risk_level from the two issue counters.
OverallStatus(criticalIssues, warningIssues) ==
  IF criticalIssues > 0 THEN STATUS.FAIL
  ELSE IF warningIssues > 0 THEN STATUS.WARNING
  ELSE STATUS.PASS

RiskLevel(criticalIssues, warningIssues) ==
  IF criticalIssues > 0 THEN "HIGH"
  ELSE IF warningIssues > 0 THEN "MEDIUM"
  ELSE "LOW"

\* Mutant of OverallScore: the penalties added to the base score.
OverallScoreAddsPenalties(totalTests, passedTests, criticalIssues, warningIssues) ==
  IF totalTests > 0
  THEN LET warningPenalty == warningIssues * 5
           criticalPenalty == criticalIssues * 20
       IN Max(0, Round(100 * passedTests + (warningPenalty + criticalPenalty) * totalTests,
                       totalTests))
  ELSE 100

\* Mutant of OverallScore: the result not clamped by Math.max(0, ...).
OverallScoreNoClamp(totalTests, passedTests, criticalIssues, warningIssues) ==
  IF totalTests > 0
  THEN LET warningPenalty == warningIssues * 5
           criticalPenalty == criticalIssues * 20
       IN Round(100 * passedTests - (warningPenalty + criticalPenalty) * totalTests,
                totalTests)
  ELSE 100

\* Lines 156-163: the score keeps its initial value 100 when no check ran.
OverallScore(totalTests, passedTests, criticalIssues, warningIssues) ==
  IF totalTests > 0
  THEN LET warningPenalty == warningIssues * 5
           criticalPenalty == criticalIssues * 20
       IN Max(0, Round(100 * passedTests - (warningPenalty + criticalPenalty) * totalTests,
                       totalTests))
  ELSE 100

\* Mutant of GeneralRecommendation: the urgent note up to and including 70.
GeneralRecommendationAt70(overall_score) ==
  IF overall_score <= 70
  THEN <<"URGENT: Multiple critical security issues detected - immediate action required">>
  ELSE IF overall_score < 90
  THEN <<"Several security improvements recommended to enhance email security">>
  ELSE <<>>

\* Lines 165-170: the general recommendation put in front by unshift.
GeneralRecommendation(overall_score) ==
  IF overall_score < 70
  THEN <<"URGENT: Multiple critical security issues detected - immediate action required">>
  ELSE IF overall_score < 90
  THEN <<"Several security improvements recommended to enhance email security">>
  ELSE <<>>

\* The local counters of evaluateSecurityStatus after the four blocks.
Counters(testResults) ==
  LET k == Contributions(testResults) IN
  [totalTests |-> SumOver([c \in CheckNames |-> k[c].total]),
   passedTests |-> SumOver([c \in CheckNames |-> k[c].passed]),
   criticalIssues |-> SumOver([c \in CheckNames |-> k[c].critical]),
   warningIssues |-> SumOver([c \in CheckNames |-> k[c].warning])]

\* Mutant of evaluateSecurityStatus: the SPF block evaluated before the
\* DMARC block.
evaluateSecurityStatusSpfFirst(testResults) ==
  LET k == Contributions(testResults)
      n == Counters(testResults)
      score == OverallScore(n.totalTests, n.passedTests, n.criticalIssues, n.warningIssues)
  IN [overall_status |-> OverallStatus(n.criticalIssues, n.warningIssues),
      overall_score |-> score,
      recommendations |-> GeneralRecommendation(score)
                            \o k["spf"].recs \o k["dmarc"].recs
                            \o k["dkim"].recs \o k["mail_server"].recs,
      test_statuses |-> [c \in {x \in CheckNames : k[x].set} |-> k[c].status],
      risk_level |-> RiskLevel(n.criticalIssues, n.warningIssues)]

evaluateSecurityStatus(testResults) ==
  LET k == Contributions(testResults)
      n == Counters(testResults)
      score == OverallScore(n.totalTests, n.passedTests, n.criticalIssues, n.warningIssues)
  IN [overall_status |-> OverallStatus(n.criticalIssues, n.warningIssues),
      overall_score |-> score,
      recommendations |-> GeneralRecommendation(score)
                            \o k["dmarc"].recs \o k["spf"].recs
                            \o k["dkim"].recs \o k["mail_server"].recs,
      test_statuses |-> [c \in {x \in CheckNames : k[x].set} |-> k[c].status],
      risk_level |-> RiskLevel(n.criticalIssues, n.warningIssues)]

\* ----------------------------------------------------- probe payloads

\* Sequences over S of length at most n.
SeqUpTo(S, n) == UNION {[1..k -> S] : k \in 0..n}

\* Texts a probe may put in spf.warnings.
WarningTexts == {"Too many DNS lookups", "Uses deprecated ptr mechanism"}

\* dmarc payloads of the probe contract; policy "p=reject" stands for a policy
\* string other than the three the evaluator knows.
DmarcPayloads ==
  {[has_dmarc |-> FALSE]}
  \cup {[has_dmarc |-> TRUE, policy |-> p, rua |-> r, ruf |-> f] :
          p \in {"reject", "quarantine", "none", "p=reject"},
          r \in {"", "mailto:rua@example.com"},
          f \in {"", "mailto:ruf@example.com"}}

SpfPayloads ==
  {[has_spf |-> FALSE]}
  \cup {[has_spf |-> TRUE, all_mechanism |-> m, warnings |-> w] :
          m \in {"-all", "~all", "+all", "?all"},
          w \in SeqUpTo(WarningTexts, MaxWarnings)}

\* key_length is a string, held as its sequence of characters.
DkimPayloads ==
  {[has_dkim |-> h, signature_valid |-> v, key_length |-> k] :
     h \in BOOLEAN, v \in BOOLEAN,
     k \in {<<>>, <<"1", "0", "2", "4">>, <<"2", "0", "4", "8">>}}

MailServerPayloads ==
  {[smtp_accessible |-> FALSE],
   [smtp_accessible |-> FALSE, supports_tls |-> FALSE, supports_auth |-> FALSE,
    response_time_ms |-> 5001]}
  \cup {[smtp_accessible |-> TRUE, supports_tls |-> t, supports_auth |-> a,
         response_time_ms |-> ms] :
          t \in BOOLEAN, a \in BOOLEAN, ms \in {120, 5000, 5001}}

Payloads(check) ==
  CASE check = "dmarc" -> DmarcPayloads
    [] check = "spf" -> SpfPayloads
    [] check = "dkim" -> DkimPayloads
    [] check = "mail_server" -> MailServerPayloads

\* ------------------------------------------------ child process output

\* The tests array of runIndividualTests.
tests ==
  <<[name |-> "dmarc", file |-> "test_dmarc.py"],
    [name |-> "spf", file |-> "test_spf.py"],
    [name |-> "dkim", file |-> "test_dkim.py"],
    [name |-> "mail_server", file |-> "test_mail_server.py"]>>

TestRunner == "test_runner.py"

Scripts == {TestRunner} \cup {tests[i].file : i \in 1..Len(tests)}

\* A chunk of standard output: white space, the text of one JSON document, or
\* text that is not JSON (a banner, a traceback).
Ws == [kind |-> "ws"]
Text == [kind |-> "text"]
Json(v) == [kind |-> "json", value |-> v]

\* The JSON document null.
JsonNull == [null |-> TRUE]

\* String.prototype.trim: leading and trailing white space removed.
RECURSIVE TrimStart(_)
TrimStart(str) ==
  IF str # <<>> /\ Head(str) = Ws THEN TrimStart(Tail(str)) ELSE str

RECURSIVE TrimEnd(_)
TrimEnd(str) ==
  IF str # <<>> /\ str[Len(str)] = Ws THEN TrimEnd(SubSeq(str, 1, Len(str) - 1)) ELSE str

Trim(str) == TrimEnd(TrimStart(str))

\* JSON.parse: the text must be exactly one JSON document (white space around
\* it is allowed by the grammar); anything else throws.
JsonBody(str) == Trim(str)
JSONParses(str) == Len(JsonBody(str)) = 1 /\ JsonBody(str)[1].kind = "json"
JSONParse(str) == JsonBody(str)[1].value

\* The concatenation of the chunks of standard error.
RECURSIVE Concat(_)
Concat(chunks) == IF chunks = <<>> THEN "" ELSE Head(chunks) \o Concat(Tail(chunks))

StderrTexts == {"Traceback: dns.resolver.NXDOMAIN"}

\* The documents the probes of the model print: for each check one payload
\* that passes cleanly and one that does not.
ProbeDocs(check) ==
  CASE check = "dmarc" ->
         {[has_dmarc |-> TRUE, policy |-> "reject", rua |-> "mailto:rua@example.com", ruf |-> ""],
          [has_dmarc |-> TRUE, policy |-> "quarantine", rua |-> "", ruf |-> ""]}
    [] check = "spf" ->
         {[has_spf |-> TRUE, all_mechanism |-> "-all", warnings |-> <<>>],
          [has_spf |-> TRUE, all_mechanism |-> "-all", warnings |-> <<"Too many DNS lookups">>]}
    [] check = "dkim" ->
         {[has_dkim |-> TRUE, signature_valid |-> TRUE, key_length |-> <<"2", "0", "4", "8">>],
          [has_dkim |-> FALSE, signature_valid |-> FALSE, key_length |-> <<>>]}
    [] check = "mail_server" ->
         {[smtp_accessible |-> TRUE, supports_tls |-> TRUE, supports_auth |-> TRUE,
           response_time_ms |-> 120],
          [smtp_accessible |-> FALSE]}

\* The payload of each check in the documents the unified runner prints.
RunnerPayload ==
  [c \in CheckNames |->
     CASE c = "dmarc" ->
            [has_dmarc |-> TRUE, policy |-> "reject", rua |-> "mailto:dmarc@example.com",
             ruf |-> "mailto:dmarc@example.com"]
       [] c = "spf" -> [has_spf |-> TRUE, all_mechanism |-> "~all", warnings |-> <<>>]
       [] c = "dkim" ->
            [has_dkim |-> TRUE, signature_valid |-> TRUE, key_length |-> <<"4", "0", "9", "6">>]
       [] c = "mail_server" ->
            [smtp_accessible |-> TRUE, supports_tls |-> TRUE, supports_auth |-> TRUE,
             response_time_ms |-> 80]]

\* The security_evaluation test_runner.py embeds (its own scoring).
RunnerEvaluation ==
  [overall_status |-> "warning", overall_score |-> 85, risk_level |-> "MEDIUM",
   recommendations |-> <<"SPF uses soft fail">>,
   test_statuses |-> [c \in CheckNames |-> IF c = "spf" THEN "warning" ELSE "pass"]]

\* m restricted to the keys in K.
Restrict(m, K) == [k \in (DOMAIN m) \cap K |-> m[k]]

\* Documents of test_runner.py: all four checks with and without the embedded
\* evaluation and with null in its place, documents lacking checks, and null.
RunnerDocs ==
  {RunnerPayload @@ [security_evaluation |-> RunnerEvaluation],
   RunnerPayload @@ [security_evaluation |-> JsonNull],
   RunnerPayload,
   Restrict(RunnerPayload, CheckNames \ {"dkim"}),
   Restrict(RunnerPayload, {}),
   JsonNull}

\* The check a probe script belongs to.
CheckOf(file) == tests[CHOOSE i \in 1..Len(tests) : tests[i].file = file].name

\* What a script may write to standard output, chunk by chunk.
StdoutChunks(script) ==
  {Ws, Text}
  \cup {Json(v) : v \in (IF script = TestRunner THEN RunnerDocs ELSE ProbeDocs(CheckOf(script)))}

\* ------------------------------------------------------------------ state

VARIABLES
  pc,          \* where the POST /api/test/:domainId handler is
  idx,         \* runIndividualTests: index of the test being awaited (0: none)
  results,     \* runIndividualTests' results, then what runSecurityTests returned
  inv,         \* per script: the runPythonScript invocation (process, timer, buffers, promise)
  evaluation,  \* the handler's evaluation
  response     \* what the handler answered

VARIABLES
  useInMemory,     \* database module: the flag initializeDatabase sets
  inMemoryDb,      \* database module: the tables of the in-memory query
  pgDb,            \* the PostgreSQL server behind pool.query
  domains,         \* server.js: fallback array of domains
  testResultsById, \* server.js: fallback object testResults, keyed by domain id
  now,             \* Date.now(), counted from a fixed instant
  runs,            \* number of runSecurityTests calls the handlers have made
  answer           \* the request served last and what it was answered

\* The state of the assessment of one request, and the state of storage.
assessment == <<pc, idx, results, inv, evaluation, response>>
storage == <<useInMemory, inMemoryDb, pgDb, domains, testResultsById, now, runs, answer>>

vars == <<pc, idx, results, inv, evaluation, response,
          useInMemory, inMemoryDb, pgDb, domains, testResultsById, now, runs, answer>>

None == [none |-> TRUE]

\* A script that has not been run.
NotRun ==
  [spawned |-> 0, proc |-> "none", exitCode |-> <<>>, timer |-> "unset", data |-> <<>>,
   error |-> <<>>, settled |-> "pending", value |-> <<>>, reason |-> ""]

\* ------------------------------------------------------- runPythonScript

\* Lines 500-508: spawn the process, empty buffers, arm the 60 s timer.
Spawned(i) ==
  [spawned |-> i.spawned + 1, proc |-> "running", exitCode |-> <<>>, timer |-> "armed",
   data |-> <<>>, error |-> <<>>, settled |-> "pending", value |-> <<>>, reason |-> ""]

\* Mutant of Reject: a later reject replaces the outcome of a settled promise.
RejectOverwrites(i, m) ==
  [i EXCEPT !.settled = "rejected", !.reason = m, !.value = <<>>, !.data = <<>>, !.error = <<>>]

\* resolve(v) / reject(new Error(m)): a promise settles once, later calls are
\* ignored. The buffers are read by nothing once the promise has settled and
\* are dropped from the state.
Resolve(i, v) ==
  IF i.settled = "pending"
  THEN [i EXCEPT !.settled = "resolved", !.value = v, !.data = <<>>, !.error = <<>>]
  ELSE i

Reject(i, m) ==
  IF i.settled = "pending"
  THEN [i EXCEPT !.settled = "rejected", !.reason = m, !.data = <<>>, !.error = <<>>]
  ELSE i

\* The awaiting caller has taken the promise's outcome: the string or the
\* Error it carried is the caller's from here on and the model keeps only
\* which way the promise settled.
Consumed(i) == [i EXCEPT !.value = <<>>, !.reason = ""]

\* Mutant of ClearTimeout: the timer is left armed.
ClearTimeoutForgotten(i) == i

\* clearTimeout(timeout)
ClearTimeout(i) == [i EXCEPT !.timer = IF i.timer = "armed" THEN "cleared" ELSE i.timer]

TimeoutMessage(script) == "Python script " \o script \o " timed out after 60 seconds"
InvalidJsonMessage(script) == "Invalid JSON output from " \o script
ExitMessage(script, code) ==
  "Python script " \o script \o " failed with code " \o ToString(code)
SpawnErrorMessage(script, err) == "Failed to execute " \o script \o ": " \o err

\* Lines 510-512: python.stdout.on('data')
StdoutData(script, chunk) ==
  /\ inv[script].proc = "running"
  /\ Len(inv[script].data) < MaxChunks
  /\ inv' = [inv EXCEPT ![script].data = Append(@, chunk)]
  /\ UNCHANGED <<pc, idx, results, evaluation, response>>
  /\ UNCHANGED storage

\* Lines 514-516: python.stderr.on('data')
StderrData(script, chunk) ==
  /\ inv[script].proc = "running"
  /\ Len(inv[script].error) < MaxErrChunks
  /\ inv' = [inv EXCEPT ![script].error = Append(@, chunk)]
  /\ UNCHANGED <<pc, idx, results, evaluation, response>>
  /\ UNCHANGED storage

\* Lines 505-508: the timer fires: python.kill() and reject. The signal is
\* sent; the process is gone only when it closes.
OnTimeout(i, script) ==
  Reject([i EXCEPT !.timer = "fired", !.proc = "killed"], TimeoutMessage(script))

TimerFires(script) ==
  /\ inv[script].timer = "armed"
  /\ inv' = [inv EXCEPT ![script] = OnTimeout(@, script)]
  /\ UNCHANGED <<pc, idx, results, evaluation, response>>
  /\ UNCHANGED storage

\* Mutant of OnClose: output on standard error fails a run that exited 0.
OnCloseStderrFails(i, script, code) ==
  LET c == ClearTimeout([i EXCEPT !.proc = "exited", !.exitCode = <<code>>]) IN
  IF code # 0 \/ Concat(i.error) # ""
  THEN Reject(c, IF Concat(i.error) # "" THEN Concat(i.error) ELSE ExitMessage(script, code))
  ELSE LET trimmedData == Trim(i.data) IN
       IF JSONParses(trimmedData)
       THEN Resolve(c, trimmedData)
       ELSE Reject(c, InvalidJsonMessage(script))

\* Lines 518-536: python.on('close', code). code is 0 or 1 for a process that
\* ran to its end and -1 (null in the code) for one ended by the signal.
OnClose(i, script, code) ==
  LET c == ClearTimeout([i EXCEPT !.proc = "exited", !.exitCode = <<code>>]) IN
  IF code # 0
  THEN Reject(c, IF Concat(i.error) # "" THEN Concat(i.error) ELSE ExitMessage(script, code))
  ELSE LET trimmedData == Trim(i.data) IN
       IF JSONParses(trimmedData)
       THEN Resolve(c, trimmedData)
       ELSE Reject(c, InvalidJsonMessage(script))

Close(script, code) ==
  /\ \/ inv[script].proc = "running" /\ code \in {0, 1}
     \/ inv[script].proc = "killed" /\ code = -1
  /\ inv' = [inv EXCEPT ![script] = OnClose(@, script, code)]
  /\ UNCHANGED <<pc, idx, results, evaluation, response>>
  /\ UNCHANGED storage

\* Lines 539-543: python.on('error'): the process could not be started, so it
\* has written nothing.
OnError(i, script, err) ==
  Reject(ClearTimeout([i EXCEPT !.proc = "failed"]), SpawnErrorMessage(script, err))

ProcessError(script) ==
  /\ inv[script].proc = "running"
  /\ inv[script].data = <<>>
  /\ inv[script].error = <<>>
  /\ inv' = [inv EXCEPT ![script] = OnError(@, script, "spawn python3 ENOENT")]
  /\ UNCHANGED <<pc, idx, results, evaluation, response>>
  /\ UNCHANGED storage

\* runPythonScript(scriptPath, scriptName, args) is called (line 490), by
\* whichever request: the invocation gets its own process, buffers and timer.
RunPythonScript(script) ==
  /\ inv[script].spawned = 0
  /\ inv' = [inv EXCEPT ![script] = Spawned(@)]
  /\ UNCHANGED <<pc, idx, results, evaluation, response>>
  /\ UNCHANGED storage

\* ------------------------------------- runSecurityTests, runIndividualTests

EvaluationKey == "_test_runner_evaluation"

\* Mutant of TryRunner: a failed unified run is taken as an empty document
\* instead of throwing.
TryRunnerSwallows(i) ==
  IF i.settled = "resolved" /\ JSONParses(i.value) /\ JSONParse(i.value) # JsonNull
  THEN LET parsedResult == JSONParse(i.value) IN
       [threw |-> FALSE,
        value |-> Restrict(parsedResult, CheckNames)
                    @@ (IF "security_evaluation" \in DOMAIN parsedResult
                        THEN EvaluationKey :> parsedResult["security_evaluation"]
                        ELSE <<>>)]
  ELSE [threw |-> FALSE, value |-> <<>>]

\* Lines 441-457: the try block of runSecurityTests, given the settled
\* test_runner.py invocation. It throws when the promise rejected, when
\* JSON.parse throws, and when the document is null (destructuring null is a
\* TypeError); otherwise it returns the four entries and the embedded
\* evaluation, whatever the document holds. A key whose value is undefined is
\* modelled as a missing key.
TryRunner(i) ==
  IF i.settled = "resolved" /\ JSONParses(i.value) /\ JSONParse(i.value) # JsonNull
  THEN LET parsedResult == JSONParse(i.value) IN
       [threw |-> FALSE,
        value |-> Restrict(parsedResult, CheckNames)
                    @@ (IF "security_evaluation" \in DOMAIN parsedResult
                        THEN EvaluationKey :> parsedResult["security_evaluation"]
                        ELSE <<>>)]
  ELSE [threw |-> TRUE, value |-> <<>>]

\* Mutant of TryProbe: the loop body without its catch, a failed probe
\* throws out of runIndividualTests.
TryProbeRethrows(i) ==
  IF i.settled = "resolved" /\ JSONParses(i.value)
  THEN [threw |-> FALSE, value |-> JSONParse(i.value)]
  ELSE [threw |-> TRUE, value |-> <<>>]

\* Lines 478-483: one pass of the loop body of runIndividualTests, given the
\* settled invocation: the parsed document, or the error entry of the catch.
TryProbe(i) ==
  IF i.settled = "resolved" /\ JSONParses(i.value)
  THEN [threw |-> FALSE, value |-> JSONParse(i.value)]
  ELSE [threw |-> FALSE,
        value |-> [error |-> IF i.settled = "rejected" THEN i.reason
                             ELSE "Unexpected token in JSON",
                   status |-> "fail"]]

\* Mutant of LastTest: the loop stops one element early.
LastTestOffByOne(k) == k >= Len(tests) - 1

\* Line 477: the loop ends after the last element of tests.
LastTest(k) == k >= Len(tests)

\* Mutant of Awaited: the caller goes on without waiting for the promise.
AwaitedAtOnce(i) == TRUE

\* await runPythonScript(...) (lines 444 and 479): the caller resumes once
\* the promise has settled.
Awaited(i) == i.settled # "pending"

\* POST /api/test/:domainId, line 340: runSecurityTests(domain) is called
\* and starts test_runner.py.
StartRequest ==
  /\ pc = "idle"
  /\ inv' = [inv EXCEPT ![TestRunner] = Spawned(@)]
  /\ pc' = "unified"
  /\ UNCHANGED <<idx, results, evaluation, response>>
  /\ UNCHANGED storage

\* Lines 443-462: the await of the unified runner resumes: return its
\* document, or fall back to runIndividualTests, which starts the first test.
RunnerReturns ==
  /\ pc = "unified"
  /\ Awaited(inv[TestRunner])
  /\ LET r == TryRunner(inv[TestRunner])
         consumed == [inv EXCEPT ![TestRunner] = Consumed(@)]
     IN
     IF ~r.threw
     THEN /\ results' = r.value
          /\ pc' = "evaluate"
          /\ inv' = consumed
          /\ UNCHANGED idx
     ELSE /\ results' = <<>>
          /\ idx' = 1
          /\ inv' = [consumed EXCEPT ![tests[1].file] = Spawned(@)]
          /\ pc' = "individual"
  /\ UNCHANGED <<evaluation, response>>
  /\ UNCHANGED storage

\* Lines 477-486: the await of the current test resumes: store its entry and
\* start the next test, or return results after the last one. A throw that
\* escaped the loop would reject runSecurityTests and reach the handler's
\* catch (lines 373-375).
ProbeReturns ==
  /\ pc = "individual"
  /\ Awaited(inv[tests[idx].file])
  /\ LET r == TryProbe(inv[tests[idx].file])
         consumed == [inv EXCEPT ![tests[idx].file] = Consumed(@)]
     IN
     IF r.threw
     THEN /\ pc' = "done"
          /\ response' = [status |-> 500, body |-> [error |-> "Test failed"]]
          /\ inv' = consumed
          /\ UNCHANGED <<idx, results>>
     ELSE /\ results' = (tests[idx].name :> r.value) @@ results
          /\ UNCHANGED response
          /\ IF LastTest(idx)
             THEN /\ pc' = "evaluate"
                  /\ idx' = 0
                  /\ inv' = consumed
             ELSE /\ pc' = "individual"
                  /\ idx' = idx + 1
                  /\ inv' = [consumed EXCEPT ![tests[idx + 1].file] = Spawned(@)]
  /\ UNCHANGED evaluation
  /\ UNCHANGED storage

\* ------------------------------------------------ POST /api/test/:domainId

\* m without key k (delete m[k]).
Without(m, k) == [x \in (DOMAIN m) \ {k} |-> m[x]]

\* if (results._test_runner_evaluation): an object is truthy; null and a
\* missing key (undefined) are not.
HasRunnerEvaluation(res) == EvaluationKey \in DOMAIN res /\ res[EvaluationKey] # JsonNull

\* Mutant of HandlerEvaluation: the handler always evaluates in JavaScript.
HandlerEvaluationAlwaysScores(res) == evaluateSecurityStatus(res)

\* Lines 342-353: take the evaluation of test_runner.py when results carries
\* one, else evaluate in JavaScript.
HandlerEvaluation(res) ==
  IF HasRunnerEvaluation(res) THEN res[EvaluationKey] ELSE evaluateSecurityStatus(res)

\* Line 349: the temporary key is deleted in the branch that took it.
Findings(res) == IF HasRunnerEvaluation(res) THEN Without(res, EvaluationKey) ELSE res

HandlerEvaluate ==
  /\ pc = "evaluate"
  /\ evaluation' = HandlerEvaluation(results)
  /\ results' = Findings(results)
  /\ pc' = "respond"
  /\ UNCHANGED <<idx, inv, response>>
  /\ UNCHANGED storage

\* Lines 355-372: responseData = {...results, security_evaluation}; answer it.
\* What is stored on the way is modelled by PostTest.
Respond ==
  /\ pc = "respond"
  /\ response' = [status |-> 200, body |-> ("security_evaluation" :> evaluation) @@ results]
  /\ pc' = "done"
  /\ UNCHANGED <<idx, results, inv, evaluation>>
  /\ UNCHANGED storage

\* ----------------------------------------------------- database module

\* Most domains POST /api/domains creates.
MaxDomains == 2

\* Most assessments POST /api/test/:domainId runs.
MaxRuns == 2

\* req.user.userId of the clients (authenticateToken has verified the token).
Users == {1, 2}

DomainNames == {"example.com"}

\* A JavaScript number and a JavaScript string, each held by its decimal
\* text: 1 and "1" have the same text and are different values.
Number(text) == [number |-> text]
String(text) == [string |-> text]

\* parseInt of a string of decimal digits.
ParseInt(v) == Number(v.string)

\* a === b and a !== b
StrictEquals(a, b) == a = b

UserId(u) == Number(ToString(u))

\* Date.now().toString(): thirteen digits.
DateNow(k) == "176225000000" \o ToString(k)

\* JSON.stringify of a value that has a JSON text: the text of one document.
JSONStringify(v) == <<Json(v)>>

\* String.prototype.toLowerCase
UpperToLower ==
  ("A" :> "a") @@ ("B" :> "b") @@ ("C" :> "c") @@ ("D" :> "d") @@ ("E" :> "e")
  @@ ("F" :> "f") @@ ("G" :> "g") @@ ("H" :> "h") @@ ("I" :> "i") @@ ("J" :> "j")
  @@ ("K" :> "k") @@ ("L" :> "l") @@ ("M" :> "m") @@ ("N" :> "n") @@ ("O" :> "o")
  @@ ("P" :> "p") @@ ("Q" :> "q") @@ ("R" :> "r") @@ ("S" :> "s") @@ ("T" :> "t")
  @@ ("U" :> "u") @@ ("V" :> "v") @@ ("W" :> "w") @@ ("X" :> "x") @@ ("Y" :> "y")
  @@ ("Z" :> "z")

RECURSIVE ToLowerCase(_)
ToLowerCase(str) ==
  IF Len(str) = 0 THEN ""
  ELSE IF Len(str) = 1
  THEN (IF str \in DOMAIN UpperToLower THEN UpperToLower[str] ELSE str)
  ELSE LET half == Len(str) \div 2
       IN ToLowerCase(SubSeq(str, 1, half)) \o ToLowerCase(SubSeq(str, half + 1, Len(str)))

\* The SQL statements of the handlers of server.js.
SelectDomainsOfUser == "SELECT * FROM domains WHERE user_id = $1 ORDER BY created_at DESC"
InsertDomain == "INSERT INTO domains (domain, user_id) VALUES ($1, $2) RETURNING *"
DeleteOwnedDomain == "DELETE FROM domains WHERE id = $1 AND user_id = $2"
SelectOwnedDomain == "SELECT * FROM domains WHERE id = $1 AND user_id = $2"
InsertTestResult ==
  "INSERT INTO test_results (domain_id, test_type, status, results, recommendations) VALUES ($1, $2, $3, $4, $5)"
SelectLatestResult ==
  "SELECT * FROM test_results WHERE domain_id = $1 ORDER BY created_at DESC LIMIT 1"

Statements ==
  {SelectDomainsOfUser, InsertDomain, DeleteOwnedDomain, SelectOwnedDomain,
   InsertTestResult, SelectLatestResult}

\* The texts the in-memory query looks for, in the order of its if statements.
InMemoryPatterns ==
  <<"select count(*) from users",
    "select * from users where username",
    "select * from users where email",
    "insert into users",
    "update users set last_login",
    "insert into domains",
    "select * from domains where user_id",
    "select * from domains where id",
    "insert into test_results",
    "select * from test_results where domain_id">>

\* The pattern of the first if statement whose test
\* text.toLowerCase().includes(pattern) holds, "" when none does.
InMemoryBranch(text) ==
  LET low == ToLowerCase(text)
      hits == {i \in 1..Len(InMemoryPatterns) : Includes(low, InMemoryPatterns[i])}
  IN IF hits = {} THEN ""
     ELSE InMemoryPatterns[CHOOSE i \in hits : \A j \in hits : i <= j]

\* The branch each statement of the handlers takes.
BranchOf == [text \in Statements |-> InMemoryBranch(text)]

\* The elements of seq that satisfy Test, and the first of them as a list of
\* at most one row (Array.prototype.find, then `x ? [x] : []`).
FirstOf(rows) == IF rows = <<>> THEN <<>> ELSE <<rows[1]>>

\* query(text, params) with useInMemory set, on the tables db: the rows it
\* returns and the tables afterwards. It never throws on the statements of
\* the handlers. The branches for the users table are not reached by them.
InMemoryQuery(text, params, db) ==
  LET branch == BranchOf[text] IN
  CASE branch = "insert into domains" ->
         LET newDomain == [id |-> Number(ToString(Len(db.domains) + 1)),
                           domain |-> params[1], user_id |-> params[2]]
         IN [threw |-> FALSE, rows |-> <<newDomain>>,
             db |-> [db EXCEPT !.domains = Append(@, newDomain)]]
    [] branch = "select * from domains where user_id" ->
         LET Mine(d) == StrictEquals(d.user_id, params[1])
         IN [threw |-> FALSE, rows |-> SelectSeq(db.domains, Mine), db |-> db]
    [] branch = "select * from domains where id" ->
         LET Wanted(d) == StrictEquals(d.id, ParseInt(params[1]))
         IN [threw |-> FALSE, rows |-> FirstOf(SelectSeq(db.domains, Wanted)), db |-> db]
    [] branch = "insert into test_results" ->
         LET newResult == [id |-> Number(ToString(Len(db.test_results) + 1)),
                           domain_id |-> params[1],
                           results |-> JSONParse(params[4])]
         IN [threw |-> FALSE, rows |-> <<newResult>>,
             db |-> [db EXCEPT !.test_results = Append(@, newResult)]]
    [] branch = "select * from test_results where domain_id" ->
         LET Wanted(r) == StrictEquals(r.domain_id, ParseInt(params[1]))
         IN [threw |-> FALSE, rows |-> SelectSeq(db.test_results, Wanted), db |-> db]
    [] OTHER -> [threw |-> FALSE, rows |-> <<>>, db |-> db]

\* PostgreSQL: a parameter for an integer column must be in the range of
\* integer (at most ten digits; the ids of the model have one digit, the
\* Date.now() ids thirteen), else the statement fails.
FitsInteger(v) == Len(v.string) < 10

RECURSIVE Reverse(_)
Reverse(seq) == IF seq = <<>> THEN <<>> ELSE Append(Reverse(Tail(seq)), Head(seq))

\* pool.query(text, params) on the server db, for the statements of the
\* handlers: it throws while the server cannot be reached, and when a
\* parameter does not fit its column or a foreign key is violated. Rows are
\* kept in the order of created_at. Deleting a domain deletes its
\* test_results (ON DELETE CASCADE).
PoolQuery(text, params, db) ==
  LET Threw == [threw |-> TRUE, rows |-> <<>>, db |-> db]
      SameId(column, v) == column.number = v.string
  IN
  IF ~db.up THEN Threw
  ELSE CASE text = InsertDomain ->
         LET row == [id |-> Number(ToString(db.domains_id_seq + 1)),
                     domain |-> params[1], user_id |-> params[2]]
         IN [threw |-> FALSE, rows |-> <<row>>,
             db |-> [db EXCEPT !.domains = Append(@, row),
                               !.domains_id_seq = @ + 1]]
    [] text = SelectDomainsOfUser ->
         LET Mine(d) == d.user_id = params[1]
         IN [threw |-> FALSE, rows |-> Reverse(SelectSeq(db.domains, Mine)), db |-> db]
    [] text = DeleteOwnedDomain ->
         IF ~FitsInteger(params[1]) THEN Threw
         ELSE LET Kept(d) == ~(SameId(d.id, params[1]) /\ d.user_id = params[2])
                  left == SelectSeq(db.domains, Kept)
                  Referenced(r) == \E i \in 1..Len(left) : left[i].id = r.domain_id
              IN [threw |-> FALSE, rows |-> <<>>,
                  db |-> [db EXCEPT !.domains = left,
                                    !.test_results = SelectSeq(@, Referenced)]]
    [] text = SelectOwnedDomain ->
         IF ~FitsInteger(params[1]) THEN Threw
         ELSE LET Wanted(d) == SameId(d.id, params[1]) /\ d.user_id = params[2]
              IN [threw |-> FALSE, rows |-> SelectSeq(db.domains, Wanted), db |-> db]
    [] text = InsertTestResult ->
         IF \/ ~FitsInteger(params[1])
            \/ ~\E i \in 1..Len(db.domains) : SameId(db.domains[i].id, params[1])
         THEN Threw
         ELSE LET row == [domain_id |-> Number(params[1].string),
                          results |-> JSONParse(params[4])]
              IN [threw |-> FALSE, rows |-> <<>>,
                  db |-> [db EXCEPT !.test_results = Append(@, row)]]
    [] text = SelectLatestResult ->
         IF ~FitsInteger(params[1]) THEN Threw
         ELSE LET Wanted(r) == SameId(r.domain_id, params[1])
                  found == SelectSeq(db.test_results, Wanted)
              IN [threw |-> FALSE,
                  rows |-> IF found = <<>> THEN <<>> ELSE <<found[Len(found)]>>,
                  db |-> db]

\* query(text, params) of the database module: in memory once
\* initializeDatabase has set useInMemory, else pool.query. up says whether
\* PostgreSQL can be reached while the request that asks is served.
Query(text, params, up) ==
  IF useInMemory
  THEN LET r == InMemoryQuery(text, params, inMemoryDb)
       IN [threw |-> r.threw, rows |-> r.rows, inMemoryDb |-> r.db, pgDb |-> pgDb]
  ELSE LET r == PoolQuery(text, params, [pgDb EXCEPT !.up = up])
       IN [threw |-> r.threw, rows |-> r.rows, inMemoryDb |-> inMemoryDb, pgDb |-> r.db]

\* -------------------------------------------------- handlers of server.js

\* The ids a client puts in a route: the serial ids and the Date.now() ids
\* the model can give out.
RouteIds ==
  {ToString(n) : n \in 1..MaxDomains} \cup {DateNow(k) : k \in 0..(MaxDomains - 1)}

\* responseData of POST /api/test/:domainId for what runSecurityTests
\* returned (lines 342-358).
ResponseData(res) ==
  ("security_evaluation" :> HandlerEvaluation(res)) @@ Findings(res)

\* What runSecurityTests returns in the storage model: the document of the
\* unified runner with its evaluation, or the four error entries of probes
\* that all timed out.
RunOutcomes ==
  {RunnerPayload @@ (EvaluationKey :> RunnerEvaluation),
   [c \in CheckNames |-> [error |-> TimeoutMessage("test_" \o c \o ".py"), status |-> "fail"]]}

Reports == {ResponseData(res) : res \in RunOutcomes}

Answer(request, u, id, status, body) ==
  [request |-> request, user |-> u, id |-> id, status |-> status, body |-> body]

\* Domains that have been created so far, in any store.
Created == pgDb.domains_id_seq + Len(inMemoryDb.domains) + now

\* Whether PostgreSQL can be reached is decided anew for each request; with
\* useInMemory set the pool is not used and nothing is decided.
Reachability(up) == useInMemory => up = pgDb.up

\* Lines 206-216: what GET /api/domains answers to user u.
ListedDomains(u, up) ==
  LET r == Query(SelectDomainsOfUser, <<UserId(u)>>, up)
  IN IF r.threw THEN domains ELSE r.rows

\* GET /api/domains (lines 205-217)
GetDomains(u, up) ==
  /\ Reachability(up)
  /\ answer' = Answer("GET /api/domains", u, "", 200, ListedDomains(u, up))
  /\ pgDb' = [pgDb EXCEPT !.up = up]
  /\ UNCHANGED <<useInMemory, inMemoryDb, domains, testResultsById, now, runs>>
  /\ UNCHANGED assessment

\* POST /api/domains (lines 240-263)
PostDomain(u, domain, up) ==
  /\ Reachability(up)
  /\ Created < MaxDomains
  /\ LET r == Query(InsertDomain, <<domain, UserId(u)>>, up)
         newDomain == [id |-> String(DateNow(now)), domain |-> domain]
     IN /\ inMemoryDb' = r.inMemoryDb
        /\ pgDb' = r.pgDb
        /\ IF ~r.threw
           THEN /\ answer' = Answer("POST /api/domains", u, r.rows[1].id.number, 201, r.rows[1])
                /\ UNCHANGED <<domains, now>>
           ELSE /\ domains' = Append(domains, newDomain)
                /\ now' = now + 1
                /\ answer' = Answer("POST /api/domains", u, newDomain.id.string, 201, newDomain)
  /\ UNCHANGED <<useInMemory, testResultsById, runs>>
  /\ UNCHANGED assessment

\* DELETE /api/domains/:id (lines 283-299)
DeleteDomain(u, id, up) ==
  /\ Reachability(up)
  /\ LET r == Query(DeleteOwnedDomain, <<String(id), UserId(u)>>, up)
         Other(d) == ~StrictEquals(d.id, String(id))
     IN /\ inMemoryDb' = r.inMemoryDb
        /\ pgDb' = r.pgDb
        /\ IF ~r.threw
           THEN UNCHANGED <<domains, testResultsById>>
           ELSE /\ domains' = SelectSeq(domains, Other)
                /\ testResultsById' = Without(testResultsById, id)
  /\ answer' = Answer("DELETE /api/domains/:id", u, id, 200, [success |-> TRUE])
  /\ UNCHANGED <<useInMemory, now, runs>>
  /\ UNCHANGED assessment

\* Lines 322-332: the domain POST /api/test/:domainId finds for user u, as a
\* list of at most one row.
FoundDomain(u, domainId, up) ==
  LET r == Query(SelectOwnedDomain, <<String(domainId), UserId(u)>>, up)
      Wanted(d) == StrictEquals(d.id, String(domainId))
  IN IF r.threw THEN FirstOf(SelectSeq(domains, Wanted)) ELSE FirstOf(r.rows)

\* POST /api/test/:domainId (lines 319-376). res is what runSecurityTests
\* returns for the domain.
PostTest(u, domainId, res, up) ==
  LET responseData == ResponseData(res)
      stored == Query(InsertTestResult,
                      <<String(domainId), "comprehensive",
                        responseData["security_evaluation"].overall_status,
                        JSONStringify(responseData),
                        responseData["security_evaluation"].recommendations>>, up)
  IN
  /\ Reachability(up)
  /\ IF FoundDomain(u, domainId, up) = <<>>
     THEN /\ answer' = Answer("POST /api/test/:domainId", u, domainId, 404,
                              [error |-> "Domain not found"])
          /\ pgDb' = [pgDb EXCEPT !.up = up]
          /\ UNCHANGED <<inMemoryDb, testResultsById, runs>>
     ELSE /\ runs < MaxRuns
          /\ runs' = runs + 1
          /\ inMemoryDb' = stored.inMemoryDb
          /\ pgDb' = stored.pgDb
          /\ IF ~stored.threw
             THEN UNCHANGED testResultsById
             ELSE testResultsById' = (domainId :> responseData) @@ testResultsById
          /\ answer' = Answer("POST /api/test/:domainId", u, domainId, 200, responseData)
  /\ UNCHANGED <<useInMemory, domains, now>>
  /\ UNCHANGED assessment

\* GET /api/test/:domainId (lines 396-423)
GetTest(u, domainId, up) ==
  /\ Reachability(up)
  /\ LET r == Query(SelectLatestResult, <<String(domainId)>>, up)
     IN answer' =
          IF ~r.threw /\ Len(r.rows) > 0
          THEN Answer("GET /api/test/:domainId", u, domainId, 200, r.rows[1].results)
          ELSE IF domainId \in DOMAIN testResultsById
          THEN Answer("GET /api/test/:domainId", u, domainId, 200, testResultsById[domainId])
          ELSE Answer("GET /api/test/:domainId", u, domainId, 404,
                      [error |-> "No test results found"])
  /\ pgDb' = [pgDb EXCEPT !.up = up]
  /\ UNCHANGED <<useInMemory, inMemoryDb, domains, testResultsById, now, runs>>
  /\ UNCHANGED assessment

\* ---------------------------------------------------------- specifications

\* Storage as the module and server.js create it (lines 3-18 of the database
\* module, 59-60 of server.js), PostgreSQL reachable and empty.
StorageAtStart ==
  /\ inMemoryDb = [domains |-> <<>>, test_results |-> <<>>]
  /\ pgDb = [up |-> TRUE, domains |-> <<>>, domains_id_seq |-> 0, test_results |-> <<>>]
  /\ domains = <<>>
  /\ testResultsById = <<>>
  /\ now = 0
  /\ runs = 0
  /\ answer = None

Init ==
  /\ pc = "idle"
  /\ idx = 0
  /\ results = <<>>
  /\ inv = [s \in Scripts |-> NotRun]
  /\ evaluation = None
  /\ response = None
  /\ useInMemory = FALSE
  /\ StorageAtStart

Next ==
  \/ StartRequest
  \/ \E s \in Scripts : \E chunk \in StdoutChunks(s) : StdoutData(s, chunk)
  \/ \E s \in Scripts : \E chunk \in StderrTexts : StderrData(s, chunk)
  \/ \E s \in Scripts : TimerFires(s)
  \/ \E s \in Scripts : \E code \in {0, 1, -1} : Close(s, code)
  \/ \E s \in Scripts : ProcessError(s)
  \/ RunnerReturns
  \/ ProbeReturns
  \/ HandlerEvaluate
  \/ Respond

Spec == Init /\ [][Next]_vars

\* The evaluator alone: every Findings Map over the probe contract's payloads
\* and the error entries of runIndividualTests, handed to the handler's
\* evaluation step.
ErrorEntries(check) ==
  {[error |-> m, status |-> "fail"] :
     m \in {TimeoutMessage(tests[i].file) : i \in {j \in 1..Len(tests) : tests[j].name = check}}
           \cup {InvalidJsonMessage(tests[i].file) : i \in {j \in 1..Len(tests) : tests[j].name = check}}}

\* An entry of a Findings Map: a payload, an error entry, or None for a check
\* that is missing from the map.
Entries(check) == Payloads(check) \cup ErrorEntries(check) \cup {None}

FindingsMap(dmarc, spf, dkim, mail_server) ==
  LET all == [c \in CheckNames |->
                CASE c = "dmarc" -> dmarc
                  [] c = "spf" -> spf
                  [] c = "dkim" -> dkim
                  [] c = "mail_server" -> mail_server]
  IN [c \in {x \in CheckNames : all[x] # None} |-> all[c]]

InitEval ==
  /\ pc = "evaluate"
  /\ idx = 0
  /\ \E dmarc \in Entries("dmarc"), spf \in Entries("spf"),
        dkim \in Entries("dkim"), mail_server \in Entries("mail_server") :
       results = FindingsMap(dmarc, spf, dkim, mail_server)
  /\ inv = [s \in Scripts |-> NotRun]
  /\ evaluation = None
  /\ response = None
  /\ useInMemory = FALSE
  /\ StorageAtStart

NextEval == HandlerEvaluate

SpecEval == InitEval /\ [][NextEval]_vars

\* Storage alone: the clients' requests served one after another, each
\* assessment reduced to what runSecurityTests returned, PostgreSQL reachable
\* or not for each request. initializeDatabase
\* has either reached PostgreSQL or set useInMemory (lines 110-160 of the
\* database module).
InitStore ==
  /\ pc = "idle"
  /\ idx = 0
  /\ results = <<>>
  /\ inv = [s \in Scripts |-> NotRun]
  /\ evaluation = None
  /\ response = None
  /\ useInMemory \in BOOLEAN
  /\ StorageAtStart

NextStore ==
  \E u \in Users : \E up \in BOOLEAN :
    \/ GetDomains(u, up)
    \/ \E domain \in DomainNames : PostDomain(u, domain, up)
    \/ \E id \in RouteIds : DeleteDomain(u, id, up)
    \/ \E id \in RouteIds : \E res \in RunOutcomes : PostTest(u, id, res, up)
    \/ \E id \in RouteIds : GetTest(u, id, up)

SpecStore == InitStore /\ [][NextStore]_vars

\* runPythonScript alone: two invocations made by simultaneous requests, their
\* events interleaved in every order.
ConcurrentScripts == {"test_dmarc.py", "test_spf.py"}

InitInvocations ==
  /\ pc = "idle"
  /\ idx = 0
  /\ results = <<>>
  /\ inv = [s \in Scripts |-> NotRun]
  /\ evaluation = None
  /\ response = None
  /\ useInMemory = FALSE
  /\ StorageAtStart

NextInvocations ==
  \E s \in ConcurrentScripts :
    \/ RunPythonScript(s)
    \/ \E chunk \in StdoutChunks(s) : StdoutData(s, chunk)
    \/ \E chunk \in StderrTexts : StderrData(s, chunk)
    \/ TimerFires(s)
    \/ \E code \in {0, 1, -1} : Close(s, code)
    \/ ProcessError(s)

SpecInvocations == InitInvocations /\ [][NextInvocations]_vars

\* ===================================================================
\* Claims about evaluateSecurityStatus, checked under SpecEval
\* ===================================================================

\* The handler has evaluated results in JavaScript (SpecEval: results is the
\* Findings Map that was given to evaluateSecurityStatus).
EvaluatedHere == pc = "respond" /\ evaluation # None

\* The checks present in a Findings Map.
PresentChecks(testResults) == {c \in CheckNames : Present(testResults, c)}

\* Number of present checks whose test_statuses entry is st.
StatusCount(ev, st) ==
  Cardinality({c \in DOMAIN ev.test_statuses : ev.test_statuses[c] = st})

\* The additional, independent warning triggers as the specification lists
\* them, each on the finding of its check: DMARC record present without rua
\* and ruf; SPF record present with a non-empty warnings list; DKIM key
\* length reported as 1024 bits; mail-server response time above 5000 ms.
StatedTriggers(testResults) ==
  {c \in PresentChecks(testResults) :
     LET f == testResults[c] IN
     CASE c = "dmarc" ->
            TruthyBool(f, "has_dmarc") /\ ~TruthyStr(f, "rua") /\ ~TruthyStr(f, "ruf")
       [] c = "spf" ->
            TruthyBool(f, "has_spf") /\ "warnings" \in DOMAIN f /\ Len(f["warnings"]) > 0
       [] c = "dkim" ->
            "key_length" \in DOMAIN f /\ Includes(f["key_length"], <<"1", "0", "2", "4">>)
       [] c = "mail_server" ->
            "response_time_ms" \in DOMAIN f /\ f["response_time_ms"] > 5000}

\* warningCount as stated: per-check WARNING statuses plus the triggers.
StatedWarningCount(testResults, ev) ==
  StatusCount(ev, STATUS.WARNING) + Cardinality(StatedTriggers(testResults))

\* C1: risk_level is determined by overall_score alone: HIGH below 70,
\* MEDIUM from 70 to 89, LOW from 90. (Stated as claimed; the code derives
\* risk_level from the issue counters instead.)
C1_RiskLevelFollowsScore ==
  EvaluatedHere =>
    evaluation.risk_level =
      (IF evaluation.overall_score < 70 THEN "HIGH"
       ELSE IF evaluation.overall_score < 90 THEN "MEDIUM"
       ELSE "LOW")

\* C2: a Findings Map with none of the four checks present evaluates to
\* overall_score 0 and risk_level HIGH. (Stated as claimed; the code leaves
\* the score at its initial 100.)
C2_NoChecksScoresZero ==
  (EvaluatedHere /\ PresentChecks(results) = {}) =>
    (evaluation.overall_score = 0 /\ evaluation.risk_level = "HIGH")

\* C4: with at least one check present, overall_score is
\* max(0, round(passed/total*100 - 5*warningCount - 20*criticalCount)), with
\* criticalCount the number of FAIL statuses and warningCount the number of
\* WARNING statuses plus every additional warning trigger. (Stated as
\* claimed.)
C4_ScoreFormula ==
  (EvaluatedHere /\ PresentChecks(results) # {}) =>
    LET total == Cardinality(PresentChecks(results))
        passed == StatusCount(evaluation, STATUS.PASS)
        critical == StatusCount(evaluation, STATUS.FAIL)
        warning == StatedWarningCount(results, evaluation)
    IN evaluation.overall_score =
         Max(0, Round(100 * passed - (5 * warning + 20 * critical) * total, total))

\* C10: overall_status is fail when some check resolved to FAIL, otherwise
\* warning when some warning trigger fired (a WARNING status or an additional
\* trigger, a non-empty SPF warnings list included), otherwise pass. (Stated
\* as claimed.)
C10_OverallStatus ==
  EvaluatedHere =>
    evaluation.overall_status =
      (IF StatusCount(evaluation, STATUS.FAIL) > 0 THEN STATUS.FAIL
       ELSE IF StatedWarningCount(results, evaluation) > 0 THEN STATUS.WARNING
       ELSE STATUS.PASS)

\* ===================================================================
\* Claims about runSecurityTests and the per-probe path, checked under Spec
\* ===================================================================

ProbeScripts == {tests[i].file : i \in 1..Len(tests)}

\* The script of a check.
FileOf(check) == tests[CHOOSE i \in 1..Len(tests) : tests[i].name = check].file

\* runIndividualTests has been entered (its first test was started).
PerProbePath == inv[tests[1].file].spawned > 0

\* runSecurityTests has returned to the handler.
Returned == pc \in {"evaluate", "respond", "done"}

\* The handler has its evaluation.
Evaluated == pc \in {"respond", "done"} /\ evaluation # None

\* An entry {error, status: 'fail'} of runIndividualTests' catch.
IsErrorEntry(e) == DOMAIN e = {"error", "status"} /\ e["status"] = "fail"

\* The messages runPythonScript rejects with.
RejectMessages(script) ==
  {TimeoutMessage(script), InvalidJsonMessage(script), ExitMessage(script, 1),
   SpawnErrorMessage(script, "spawn python3 ENOENT")}
  \cup {Concat(q) : q \in SeqUpTo(StderrTexts, MaxErrChunks) \ {<<>>}}

\* C3: when exactly one probe failed in the per-probe path and the other
\* three succeeded, the evaluation has the failed check as fail in
\* test_statuses and counts it as one critical issue, and each other check has
\* the status it gets when evaluated alone. (Stated as claimed; the code
\* classifies an error entry of dkim as warning.)
C3_FailedProbeIsFail ==
  LET failed == {c \in DOMAIN results : IsErrorEntry(results[c])} IN
  (PerProbePath /\ Evaluated /\ Cardinality(failed) = 1) =>
    \A c \in CheckNames :
      LET alone == evaluateSecurityStatus(Restrict(results, {c})) IN
      /\ c \in DOMAIN evaluation.test_statuses
      /\ c \in failed =>
           /\ evaluation.test_statuses[c] = STATUS.FAIL
           /\ Counters(Restrict(results, {c})).criticalIssues = 1
      /\ c \notin failed =>
           /\ results[c] \in ProbeDocs(c)
           /\ evaluation.test_statuses = (c :> alone.test_statuses[c]) @@ evaluation.test_statuses

\* C5: runSecurityTests never rejects (the handler never reaches its catch and
\* answers 200 whatever the unified runner and the probes did), and when the
\* unified runner and all four probes failed the Findings Map is four
\* {error, status: 'fail'} entries and the evaluation is score 0, risk HIGH,
\* status fail.
C5_NeverRejects ==
  /\ response # None => response.status = 200
  /\ (Returned /\ \A s \in Scripts : inv[s].settled = "rejected") =>
       /\ DOMAIN results = CheckNames
       /\ \A c \in CheckNames :
            /\ IsErrorEntry(results[c])
            /\ results[c]["error"] \in RejectMessages(FileOf(c))
       /\ Evaluated =>
            /\ evaluation.overall_score = 0
            /\ evaluation.risk_level = "HIGH"
            /\ evaluation.overall_status = STATUS.FAIL

\* C5 witness: the request was answered after test_runner.py and all four
\* probes failed.
C5_Witness ==
  /\ pc = "done"
  /\ response # None
  /\ \A s \in Scripts : inv[s].settled = "rejected"
  /\ inv[TestRunner].proc = "killed"
  /\ inv["test_dkim.py"].proc = "failed"

\* C6: when the unified runner failed (non-zero exit, timeout, spawn error or
\* malformed JSON), runSecurityTests returns nothing of the unified output:
\* the per-probe path ran, each of the four probes was started, and every
\* entry returned is a probe's document or a probe's error entry.
C6_FailedRunnerFallsBack ==
  (inv[TestRunner].settled = "rejected" /\ pc # "unified") =>
    /\ PerProbePath
    /\ Returned =>
         /\ \A s \in ProbeScripts : inv[s].spawned = 1 /\ inv[s].settled # "pending"
         /\ DOMAIN results = CheckNames
         /\ EvaluationKey \notin DOMAIN results
         /\ \A c \in CheckNames :
              /\ results[c] # RunnerPayload[c]
              /\ results[c] \in ProbeDocs(c) \/ IsErrorEntry(results[c])
    /\ Evaluated => evaluation # RunnerEvaluation

\* C6 witness: test_runner.py printed a complete document but exited non-zero,
\* and the per-probe path has returned with a probe's document.
C6_Witness ==
  /\ pc = "evaluate"
  /\ inv[TestRunner].settled = "rejected"
  /\ inv[TestRunner].proc = "exited"
  /\ results["spf"] \in ProbeDocs("spf")

\* C7: a document of the unified runner that lacks one of dmarc, spf, dkim,
\* mail_server makes runSecurityTests fall back, so no Findings Map with a
\* missing check is ever returned or evaluated. (Stated as claimed; the code
\* returns whatever the document holds.)
C7_IncompleteDocumentFallsBack ==
  Returned /\ (pc = "done" => response.status = 200) => CheckNames \subseteq DOMAIN results

C8_EachProbeOnce ==
  /\ \A s \in ProbeScripts : inv[s].spawned <= 1
  /\ (PerProbePath /\ Returned) =>
       /\ DOMAIN results \cap CheckNames = CheckNames
       /\ \A c \in CheckNames :
            /\ inv[FileOf(c)].spawned = 1
            /\ inv[FileOf(c)].settled = "resolved" => results[c] \in ProbeDocs(c)
            /\ inv[FileOf(c)].settled = "rejected" =>
                 /\ IsErrorEntry(results[c])
                 /\ results[c]["error"] \in RejectMessages(FileOf(c))

\* The step in which runIndividualTests takes the outcome of the test it
\* awaited: it adds exactly the entry of that test, which is the document the
\* process printed or {error: <the rejection's message>, status: 'fail'}.
C8_EntryStep ==
  (pc = "individual" /\ (idx' # idx \/ pc' # pc)) =>
    LET i == inv[tests[idx].file]
        name == tests[idx].name
    IN /\ DOMAIN results' = DOMAIN results \cup {name}
       /\ name \notin DOMAIN results
       /\ \A c \in DOMAIN results : results'[c] = results[c]
       /\ i.settled = "resolved" => \E k \in 1..Len(i.value) : i.value[k] = Json(results'[name])
       /\ i.settled = "rejected" => results'[name] = [error |-> i.reason, status |-> "fail"]

\* C8: in the per-probe path each of the four checks is run exactly once
\* whatever the others did, and the Findings Map returned has exactly one
\* entry per check: the parsed document of a probe that succeeded,
\* {error: <message>, status: 'fail'} of one that failed or timed out.
C8_OneEntryPerCheck == []C8_EachProbeOnce /\ [][C8_EntryStep]_vars

\* C8 witness: the per-probe path has returned after dmarc succeeded, spf
\* timed out, dkim printed no JSON and mail_server succeeded.
C8_Witness ==
  /\ pc = "evaluate"
  /\ PerProbePath
  /\ results["dmarc"] \in ProbeDocs("dmarc")
  /\ results["spf"] = [error |-> TimeoutMessage("test_spf.py"), status |-> "fail"]
  /\ results["dkim"] = [error |-> InvalidJsonMessage("test_dkim.py"), status |-> "fail"]
  /\ results["mail_server"] \in ProbeDocs("mail_server")

\* C9: in the per-probe path no probe's start waits for another probe to
\* complete or time out: while a probe is running, every other probe has been
\* started. (Stated as claimed; the code awaits each probe before it starts
\* the next.)
C9_NoProbeWaits ==
  \A s \in ProbeScripts :
    inv[s].proc = "running" => \A t \in ProbeScripts : inv[t].spawned > 0

\* ===================================================================
\* Further claims about evaluateSecurityStatus, checked under SpecEval
\* ===================================================================

\* The test_statuses entry of check c, "" when it has none.
StatusOf(ev, c) == IF c \in DOMAIN ev.test_statuses THEN ev.test_statuses[c] ELSE ""

\* C11: when every present check resolves to PASS and no additional warning
\* trigger fires, the evaluation is overall_score 100, overall_status pass,
\* risk_level LOW and no recommendation.
C11_AllPassIsPerfect ==
  (/\ EvaluatedHere
   /\ \A c \in PresentChecks(results) : StatusOf(evaluation, c) = STATUS.PASS
   /\ StatedTriggers(results) = {}) =>
    /\ evaluation.overall_score = 100
    /\ evaluation.overall_status = STATUS.PASS
    /\ evaluation.risk_level = "LOW"
    /\ evaluation.recommendations = <<>>

\* C11 witness: all four checks present and passing, nothing triggered.
C11_Witness ==
  /\ EvaluatedHere
  /\ PresentChecks(results) = CheckNames
  /\ \A c \in CheckNames : StatusOf(evaluation, c) = STATUS.PASS
  /\ StatedTriggers(results) = {}

\* The status the table gives a finding that is present and did not error;
\* "" where the table has no row (a DMARC policy other than reject,
\* quarantine, none).
TableStatus(c, f) ==
  CASE c = "dmarc" ->
         IF ~TruthyBool(f, "has_dmarc") THEN STATUS.FAIL
         ELSE IF StrIs(f, "policy", "reject") THEN STATUS.PASS
         ELSE IF StrIs(f, "policy", "quarantine") THEN STATUS.WARNING
         ELSE IF StrIs(f, "policy", "none") THEN STATUS.FAIL
         ELSE ""
    [] c = "spf" ->
         IF ~TruthyBool(f, "has_spf") THEN STATUS.FAIL
         ELSE IF StrIs(f, "all_mechanism", "-all") THEN STATUS.PASS
         ELSE IF StrIs(f, "all_mechanism", "+all") THEN STATUS.FAIL
         ELSE STATUS.WARNING
    [] c = "dkim" ->
         IF ~TruthyBool(f, "has_dkim") THEN STATUS.WARNING
         ELSE IF TruthyBool(f, "signature_valid") THEN STATUS.PASS
         ELSE STATUS.FAIL
    [] c = "mail_server" ->
         LET both == TruthyBool(f, "supports_tls") /\ TruthyBool(f, "supports_auth")
             neither == ~TruthyBool(f, "supports_tls") /\ ~TruthyBool(f, "supports_auth")
         IN IF ~TruthyBool(f, "smtp_accessible") \/ neither THEN STATUS.FAIL
            ELSE IF both THEN STATUS.PASS
            ELSE STATUS.WARNING

C13_FailNeverRaisesScore ==
  EvaluatedHere =>
    \A c \in PresentChecks(results) :
      StatusOf(evaluation, c) = STATUS.FAIL =>
        evaluation.overall_score <= evaluateSecurityStatus(Without(results, c)).overall_score

\* C13 witness: one FAIL check added to a map that holds a DKIM warning and
\* a passing SPF.
C13_Witness ==
  /\ EvaluatedHere
  /\ PresentChecks(results) = {"dmarc", "spf", "dkim"}
  /\ StatusOf(evaluation, "dmarc") = STATUS.FAIL
  /\ StatusOf(evaluation, "spf") = STATUS.PASS
  /\ StatusOf(evaluation, "dkim") = STATUS.WARNING

\* C14: overall_score is an integer from 0 to 100, and it is 0 whenever the
\* warning and critical penalties exceed the base score.
C14_ScoreRange ==
  EvaluatedHere =>
    LET n == Counters(results)
        penalties == 5 * n.warningIssues + 20 * n.criticalIssues
    IN /\ evaluation.overall_score \in 0..100
       /\ (n.totalTests > 0 /\ penalties * n.totalTests > 100 * n.passedTests) =>
            evaluation.overall_score = 0

\* C14 witness: one check of four passes (base 25) and the penalties of the
\* other three exceed it.
C14_Witness ==
  /\ EvaluatedHere
  /\ Counters(results).totalTests = 4
  /\ Counters(results).passedTests = 1
  /\ Counters(results).criticalIssues = 3
  /\ evaluation.overall_score = 0

\* Number of elements of seq equal to x.
Occurrences(seq, x) == Cardinality({i \in 1..Len(seq) : seq[i] = x})

\* C15: a present SPF record with a non-empty warnings list adds one warning
\* to warningCount (overall_score 5 lower, overall_status at least warning)
\* without changing the SPF status, and each listed warning is in
\* recommendations verbatim with the prefix "SPF Warning: ". Compared with
\* the same map with the list emptied. (Stated as claimed; the code pushes
\* the recommendations and counts nothing.)
C15_SpfWarningsCount ==
  (/\ EvaluatedHere
   /\ Present(results, "spf")
   /\ TruthyBool(results["spf"], "has_spf")
   /\ Len(results["spf"]["warnings"]) > 0) =>
    LET quiet == [results EXCEPT !["spf"]["warnings"] = <<>>]
        before == evaluateSecurityStatus(quiet)
        w == results["spf"]["warnings"]
    IN /\ Counters(results).warningIssues = Counters(quiet).warningIssues + 1
       /\ evaluation.overall_score = Max(0, before.overall_score - 5)
       /\ evaluation.overall_status # STATUS.PASS
       /\ StatusOf(evaluation, "spf") = StatusOf(before, "spf")
       /\ \A i \in 1..Len(w) :
            Occurrences(evaluation.recommendations, "SPF Warning: " \o w[i]) >= 1

\* The finding of check c with its additional warning trigger taken away.
TriggerOff(c, f) ==
  CASE c = "dmarc" -> [f EXCEPT !["rua"] = "mailto:rua@example.com"]
    [] c = "dkim" -> [f EXCEPT !["key_length"] = <<"2", "0", "4", "8">>]
    [] c = "mail_server" -> [f EXCEPT !["response_time_ms"] = 120]

\* The recommendation of the additional warning trigger of check c.
TriggerRecommendation(c) ==
  CASE c = "dmarc" ->
         "Configure DMARC reporting addresses (rua/ruf) to monitor email authentication"
    [] c = "dkim" ->
         "Consider upgrading DKIM key length to 2048 bits or higher for better security"
    [] c = "mail_server" ->
         "Mail server response time is slow - consider performance optimization"

\* C16: a present DMARC record without rua and ruf, a DKIM key_length
\* containing 1024 and a mail-server response_time_ms above 5000 each add
\* exactly one warning and one recommendation and leave the status of their
\* check unchanged, whatever that status is. Compared with the same map
\* with the trigger taken away. (Stated as claimed; the code looks at the
\* DKIM key length only when DKIM passes and at the response time only when
\* the server is accessible.)
C16_TriggersAddOneWarning ==
  EvaluatedHere =>
    \A c \in StatedTriggers(results) \ {"spf"} :
      LET off == [results EXCEPT ![c] = TriggerOff(c, results[c])]
          before == evaluateSecurityStatus(off)
      IN /\ Counters(results).warningIssues = Counters(off).warningIssues + 1
         /\ Occurrences(evaluation.recommendations, TriggerRecommendation(c)) = 1
         /\ Occurrences(before.recommendations, TriggerRecommendation(c)) = 0
         /\ StatusOf(evaluation, c) = StatusOf(before, c)


\* s starts with the text p.
StartsWith(s, p) == Len(s) >= Len(p) /\ SubSeq(s, 1, Len(p)) = p

\* The recommendation texts of each check for the statuses WARNING and FAIL.
StatusTexts ==
  [c \in CheckNames |->
     CASE c = "dmarc" ->
            [warning |-> {"Consider upgrading DMARC policy from \"quarantine\" to \"reject\" for stronger protection"},
             fail |-> {"DMARC policy is set to \"none\" - upgrade to \"quarantine\" or \"reject\" to prevent email spoofing",
                       "CRITICAL: No DMARC record found - implement DMARC to prevent email spoofing"}]
       [] c = "spf" ->
            [warning |-> {"SPF uses soft fail (~all) - consider hard fail (-all) for stronger protection",
                          "SPF record should end with -all or ~all mechanism"},
             fail |-> {"CRITICAL: SPF allows all senders (+all) - this provides no protection",
                       "CRITICAL: No SPF record found - implement SPF to specify authorized mail servers"}]
       [] c = "dkim" ->
            [warning |-> {"DKIM not detected with common selectors - ensure DKIM is properly configured"},
             fail |-> {"DKIM record found but signature validation failed - check key configuration"}]
       [] c = "mail_server" ->
            [warning |-> {"Mail server should support TLS encryption",
                          "Mail server should support SMTP authentication"},
             fail |-> {"Mail server lacks TLS and authentication support - security risk",
                       "Mail server is not accessible - check server configuration"}]]

\* The recommendation texts of check c for the status st.
StatusRecommendations(c, st) ==
  IF st \in {STATUS.WARNING, STATUS.FAIL} THEN StatusTexts[c][st] ELSE {}

\* The recommendation texts of each check for WARNING or FAIL.
AnyStatusTexts == [c \in CheckNames |-> StatusTexts[c].warning \cup StatusTexts[c].fail]

\* Where the WARNING or FAIL recommendations of check c stand in recs.
StatusPositions(c, recs) == {i \in 1..Len(recs) : recs[i] \in AnyStatusTexts[c]}

\* C17: each check that resolves to WARNING or FAIL appends exactly one
\* recommendation for that status (a check that does not appends none of
\* them); the per-check recommendations stand in the order DMARC, SPF,
\* DKIM, mail server; the recommendation for an absent DMARC record and for
\* an absent SPF record starts with "CRITICAL: ".
C17_OneRecommendationInOrder ==
  EvaluatedHere =>
    LET recs == evaluation.recommendations
        pos == [c \in CheckNames |-> StatusPositions(c, recs)]
    IN /\ \A c \in CheckNames :
            IF StatusOf(evaluation, c) \in {STATUS.WARNING, STATUS.FAIL}
            THEN /\ Cardinality(pos[c]) = 1
                 /\ \A i \in pos[c] :
                      recs[i] \in StatusRecommendations(c, StatusOf(evaluation, c))
            ELSE pos[c] = {}
       /\ \A a \in 1..Len(Checks) : \A b \in 1..Len(Checks) :
            a < b => \A i \in pos[Checks[a]] : \A j \in pos[Checks[b]] : i < j
       /\ (Present(results, "dmarc") /\ ~TruthyBool(results["dmarc"], "has_dmarc")) =>
            \A i \in pos["dmarc"] : StartsWith(recs[i], "CRITICAL: ")
       /\ (Present(results, "spf") /\ ~TruthyBool(results["spf"], "has_spf")) =>
            \A i \in pos["spf"] : StartsWith(recs[i], "CRITICAL: ")

\* All four checks warn or fail, DMARC and SPF records are absent, and the
\* four recommendations follow the general one.
C17_Witness ==
  /\ EvaluatedHere
  /\ PresentChecks(results) = CheckNames
  /\ ~TruthyBool(results["dmarc"], "has_dmarc")
  /\ ~TruthyBool(results["spf"], "has_spf")
  /\ StatusOf(evaluation, "dkim") = STATUS.WARNING
  /\ StatusOf(evaluation, "mail_server") = STATUS.WARNING
  /\ Len(evaluation.recommendations) = 5
  /\ StatusPositions("dmarc", evaluation.recommendations) = {2}
  /\ StatusPositions("mail_server", evaluation.recommendations) = {5}

UrgentNote ==
  "URGENT: Multiple critical security issues detected - immediate action required"

SofterNote ==
  "Several security improvements recommended to enhance email security"

\* C18: the first element of recommendations is the "URGENT: ..." note
\* exactly when overall_score < 70 and the softer improvement note exactly
\* when 70 <= overall_score < 90; from 90 no global note is there; a global
\* note stands nowhere but in front of every per-check recommendation.
C18_GlobalNote ==
  EvaluatedHere =>
    LET recs == evaluation.recommendations
        score == evaluation.overall_score
        first(note) == Len(recs) > 0 /\ recs[1] = note
    IN /\ first(UrgentNote) <=> score < 70
       /\ first(SofterNote) <=> (70 <= score /\ score < 90)
       /\ score >= 90 => Occurrences(recs, UrgentNote) + Occurrences(recs, SofterNote) = 0
       /\ \A i \in 2..Len(recs) : recs[i] \notin {UrgentNote, SofterNote}

\* A score of exactly 70 with the softer note in front of per-check
\* recommendations.
C18_Witness ==
  /\ EvaluatedHere
  /\ evaluation.overall_score = 70
  /\ Len(evaluation.recommendations) >= 2
  /\ evaluation.recommendations[1] = SofterNote

\* Every text each check can put into recommendations.
Vocabulary ==
  [c \in CheckNames |->
     AnyStatusTexts[c]
       \cup (IF c = "spf" THEN {"SPF Warning: " \o w : w \in WarningTexts}
             ELSE {TriggerRecommendation(c)})]

\* C19: a check absent from the Findings Map is not counted in totalChecks,
\* gets no test_statuses entry, adds no recommendation and no penalty: the
\* counters are those of the statuses and triggers of the present checks.
C19_AbsentIsNotRun ==
  EvaluatedHere =>
    LET here == PresentChecks(results)
        n == Counters(results)
        absentTexts == UNION {Vocabulary[c] : c \in CheckNames \ here}
    IN /\ DOMAIN evaluation.test_statuses \subseteq here
       /\ n.totalTests = Cardinality(here)
       /\ n.passedTests = StatusCount(evaluation, STATUS.PASS)
       /\ n.criticalIssues = StatusCount(evaluation, STATUS.FAIL)
       /\ n.warningIssues <= StatedWarningCount(results, evaluation)
       /\ \A i \in 1..Len(evaluation.recommendations) :
            evaluation.recommendations[i] \notin absentTexts
       /\ evaluation.overall_score =
            OverallScore(Cardinality(here), n.passedTests, n.criticalIssues, n.warningIssues)

\* Only DMARC and DKIM ran, both pass: two tests, a perfect score.
C19_Witness ==
  /\ EvaluatedHere
  /\ PresentChecks(results) = {"dmarc", "dkim"}
  /\ Counters(results).totalTests = 2
  /\ DOMAIN evaluation.test_statuses = {"dmarc", "dkim"}
  /\ evaluation.overall_score = 100

\* C29: every present check has one test_statuses entry and is counted once,
\* as passed, as critical or as the warning of its status, so test_statuses
\* has as many entries as checks were counted; this for every Findings Map,
\* a DMARC record with an unknown policy and probe error entries included.
C29_OneStatusPerPresentCheck ==
  EvaluatedHere =>
    LET n == Counters(results)
        statuses == evaluation.test_statuses
    IN /\ DOMAIN statuses = PresentChecks(results)
       /\ Cardinality(DOMAIN statuses) = n.totalTests
       /\ \A c \in DOMAIN statuses : statuses[c] \in {STATUS.PASS, STATUS.WARNING, STATUS.FAIL}
       /\ n.passedTests = Cardinality({c \in DOMAIN statuses : statuses[c] = STATUS.PASS})
       /\ n.criticalIssues = Cardinality({c \in DOMAIN statuses : statuses[c] = STATUS.FAIL})
       /\ n.totalTests =
            n.passedTests + n.criticalIssues
              + Cardinality({c \in DOMAIN statuses : statuses[c] = STATUS.WARNING})

\* --------------------------------- claims about the request, continued

\* The document test_runner.py printed carries an evaluation.
CarriesEvaluation(doc) ==
  "security_evaluation" \in DOMAIN doc /\ doc["security_evaluation"] # JsonNull

Alive(script) == inv[script].proc \in {"running", "killed"}

\* C26: while the process of test_runner.py is alive no probe process of the
\* request is, also when the per-probe path was entered because the unified
\* runner timed out.
C26_RunnerAndProbesNeverOverlap ==
  Alive(TestRunner) => \A s \in ProbeScripts : ~Alive(s)

\* C27: when the handler evaluates, every invocation the request started has
\* settled and no process runs on unsignalled; on the per-probe path each of
\* the four probes was run once and the Findings Map has the outcome of each:
\* its document when it resolved, its error entry when it rejected.
C27_EvaluationAfterAllSettled ==
  pc \in {"evaluate", "respond"} =>
    /\ \A s \in Scripts :
         inv[s].spawned > 0 => inv[s].settled # "pending" /\ inv[s].proc # "running"
    /\ PerProbePath =>
         /\ CheckNames \subseteq DOMAIN results
         /\ \A i \in 1..Len(tests) :
              LET s == tests[i].file
                  entry == results[tests[i].name]
              IN /\ inv[s].spawned = 1
                 /\ inv[s].settled = "resolved" => entry \in ProbeDocs(tests[i].name)
                 /\ inv[s].settled = "rejected" => IsErrorEntry(entry)

\* C27 witness: the handler is about to evaluate a Findings Map whose last
\* probe timed out and therefore has an error entry, the other three having
\* printed their documents.
C27_Witness ==
  /\ pc = "evaluate"
  /\ PerProbePath
  /\ inv["test_mail_server.py"].timer = "fired"
  /\ results["mail_server"] =
       [error |-> TimeoutMessage("test_mail_server.py"), status |-> "fail"]
  /\ \A c \in CheckNames \ {"mail_server"} : results[c] \in ProbeDocs(c)

\* ------------------------------------------- claims about runPythonScript

\* The promise of an invocation and what it carries.
Outcome(i) == [settled |-> i.settled, value |-> i.value, reason |-> i.reason]

\* C24: when the timer of an invocation fires, its process is sent the kill
\* signal and its outcome is the timeout error; no close or error event that
\* comes later changes that outcome; and the step leaves every other
\* invocation (process, buffers, timer, outcome) as it was.
C24_TimeoutIsFinalAndLocal ==
  [][\A s \in Scripts :
       /\ (inv[s].timer = "armed" /\ inv'[s].timer = "fired") =>
            /\ inv[s].proc = "running"
            /\ inv'[s].proc = "killed"
            /\ Outcome(inv'[s]) =
                 [settled |-> "rejected", value |-> <<>>, reason |-> TimeoutMessage(s)]
            /\ \A t \in Scripts \ {s} : inv'[t] = inv[t]
       /\ inv[s].timer = "fired" =>
            /\ inv'[s].timer = "fired"
            /\ Outcome(inv'[s]) =
                 [settled |-> "rejected", value |-> <<>>, reason |-> TimeoutMessage(s)]]_vars

\* C24 witness: test_dmarc.py timed out and its process has since closed,
\* the outcome still being the timeout error, while test_spf.py, which was
\* running beside it, resolved with its document.
C24_Witness ==
  /\ inv["test_dmarc.py"].timer = "fired"
  /\ inv["test_dmarc.py"].proc = "exited"
  /\ inv["test_dmarc.py"].settled = "rejected"
  /\ inv["test_dmarc.py"].reason = TimeoutMessage("test_dmarc.py")
  /\ inv["test_spf.py"].settled = "resolved"
  /\ inv["test_spf.py"].timer = "cleared"

\* C25: when the process closes with its timer still armed, the outcome
\* follows from the exit code and the output alone. Exit code 0: resolved
\* with the trimmed standard output when that is one JSON document, rejected
\* with the invalid-JSON error when it is not, whatever was written to
\* standard error. Another exit code: rejected with the standard error text,
\* or with the exit message when there is none.
C25_CloseClassifiesByCodeAndOutput ==
  [][\A s \in Scripts :
       (inv[s].timer = "armed" /\ inv'[s].proc = "exited") =>
         LET code == inv'[s].exitCode[1]
             trimmedData == Trim(inv[s].data)
             error == Concat(inv[s].error)
         IN /\ inv'[s].timer = "cleared"
            /\ Outcome(inv'[s]) =
                 IF code = 0
                 THEN IF Len(trimmedData) = 1 /\ trimmedData[1].kind = "json"
                      THEN [settled |-> "resolved", value |-> trimmedData, reason |-> ""]
                      ELSE [settled |-> "rejected", value |-> <<>>,
                            reason |-> InvalidJsonMessage(s)]
                 ELSE [settled |-> "rejected", value |-> <<>>,
                       reason |-> IF error # "" THEN error
                                  ELSE "Python script " \o s \o " failed with code "
                                         \o ToString(code)]]_vars

\* C25 witness: test_dmarc.py printed its document, exited 0 and resolved with
\* the document; test_spf.py printed something that is not one JSON document,
\* exited 0 and was rejected with the invalid-JSON error.
C25_Witness ==
  /\ inv["test_dmarc.py"].exitCode = <<0>>
  /\ inv["test_dmarc.py"].settled = "resolved"
  /\ JSONParse(inv["test_dmarc.py"].value) \in ProbeDocs("dmarc")
  /\ inv["test_spf.py"].exitCode = <<0>>
  /\ inv["test_spf.py"].settled = "rejected"
  /\ inv["test_spf.py"].reason = InvalidJsonMessage("test_spf.py")

\* An event that settles: the timer fired, the process closed or failed.
Settling(i, j) ==
  \/ i.timer = "armed" /\ j.timer = "fired"
  \/ i.proc # "exited" /\ j.proc = "exited"
  \/ i.proc # "failed" /\ j.proc = "failed"

\* C28: an invocation settles once, by the first of timeout, close and error:
\* that event settles a pending promise and no event changes a settled one;
\* close and error clear the timer, so the timer is never armed once the
\* process has closed or failed and fires only on a running process; every
\* step changes one invocation only, and what an invocation resolves with is
\* the trimmed output of its own process, a document of its own script.
C28_SettlesOnceAndAlone ==
  [][/\ Cardinality({s \in Scripts : inv'[s] # inv[s]}) <= 1
     /\ \A s \in Scripts :
          /\ inv[s].settled # "pending" => Outcome(inv'[s]) = Outcome(inv[s])
          /\ (inv[s].settled = "pending" /\ inv[s].spawned > 0) =>
               (inv'[s].settled # "pending" <=> Settling(inv[s], inv'[s]))
          /\ inv'[s].proc \in {"exited", "failed"} => inv'[s].timer \in {"cleared", "fired"}
          /\ (inv[s].timer = "armed" /\ inv'[s].timer = "fired") => inv[s].proc = "running"
          /\ (inv[s].settled = "pending" /\ inv'[s].settled = "resolved") =>
               /\ inv'[s].value = Trim(inv[s].data)
               /\ s \in ProbeScripts => JSONParse(inv'[s].value) \in ProbeDocs(CheckOf(s))]_vars

\* C28 witness: test_dmarc.py has closed and resolved with its document, its
\* timer cleared, while test_spf.py still runs with output in its own buffer
\* and its own timer armed.
C28_Witness ==
  /\ inv["test_dmarc.py"].settled = "resolved"
  /\ inv["test_dmarc.py"].timer = "cleared"
  /\ JSONParse(inv["test_dmarc.py"].value) \in ProbeDocs("dmarc")
  /\ inv["test_spf.py"].proc = "running"
  /\ inv["test_spf.py"].timer = "armed"
  /\ inv["test_spf.py"].settled = "pending"
  /\ Len(inv["test_spf.py"].data) = MaxChunks
  /\ inv["test_spf.py"].data[1].kind = "json"

\* ------------------------------------------ claims about the stored results

\* The id of a domain row as a route carries it.
IdText(d) == IF "number" \in DOMAIN d.id THEN d.id.number ELSE d.id.string

\* GET /api/domains would show user u the domain of this id.
Listed(u, id, up) ==
  \E i \in 1..Len(ListedDomains(u, up)) : IdText(ListedDomains(u, up)[i]) = id

\* The results kept anywhere for the domain of this id.
KeptResults(id) ==
  [inMemory |-> SelectSeq(inMemoryDb.test_results,
                          LAMBDA r : r.domain_id \in {String(id), Number(id)}),
   pg |-> SelectSeq(pgDb.test_results, LAMBDA r : r.domain_id = Number(id)),
   fallback |-> IF id \in DOMAIN testResultsById THEN <<testResultsById[id]>> ELSE <<>>]

\* C22: after POST /api/test/:domainId has answered 200 for a domain, a GET
\* /api/test/:domainId that follows it in the same storage mode answers 200
\* with the results of that assessment, the most recent one of the domain.
C22_GetReturnsLatestAssessment ==
  [][(/\ answer # None
      /\ answer.request = "POST /api/test/:domainId"
      /\ answer.status = 200
      /\ answer'.request = "GET /api/test/:domainId"
      /\ answer'.id = answer.id
      /\ pgDb'.up = pgDb.up)
     => (answer'.status = 200 /\ answer'.body = answer.body)]_vars

\* C23: when DELETE /api/domains/:id answers {success: true} to a user whom
\* GET /api/domains showed the domain, then, the storage mode staying what
\* it was for the request before, GET /api/domains no longer shows it and
\* POST /api/test/:id finds no domain (404).
C23_DeletedDomainIsGone ==
  [][\A u \in Users : \A id \in RouteIds : \A up \in BOOLEAN :
       (/\ Reachability(up)
        /\ pgDb.up = up
        /\ Listed(u, id, up)
        /\ answer'.request = "DELETE /api/domains/:id"
        /\ answer'.user = u
        /\ answer'.id = id
        /\ answer'.status = 200
        /\ pgDb'.up = up)
       => (/\ ~Listed(u, id, up)'
           /\ FoundDomain(u, id, up)' = <<>>)]_vars

\* C30: POST /api/test/:domainId for an id that GET /api/domains does not
\* show the caller (a domain of another user, or no domain) answers 404,
\* runs no assessment and stores no result, the storage mode staying what it
\* was for the request before.
C30_OnlyOwnDomainsAreAssessed ==
  [][\A u \in Users : \A id \in RouteIds : \A up \in BOOLEAN :
       (/\ Reachability(up)
        /\ pgDb.up = up
        /\ ~Listed(u, id, up)
        /\ answer'.request = "POST /api/test/:domainId"
        /\ answer'.user = u
        /\ answer'.id = id
        /\ pgDb'.up = up)
       => (/\ answer'.status = 404
           /\ runs' = runs
           /\ KeptResults(id)' = KeptResults(id))]_vars

====
